---- MODULE Spec2Model ----
(***************************************************************************)
(* A model of sqlglot/expressions.py: the Expression node core (parent,    *)
(* depth, walk/bfs/dfs, find/find_all, transform, structural equality and  *)
(* hash) and the Func binder (from_arg_list, sql_names).                   *)
(*                                                                         *)
(* Objects live in a heap: a sequence of node records, the index being the *)
(* object identity.  A value held in an args slot is a record with a tag:  *)
(* None, a scalar, a reference to a node, or a Python list of values.      *)
(***************************************************************************)
EXTENDS Integers, Sequences, FiniteSets, TLC

VARIABLES
    heap,   \* the Expression objects constructed so far, by identity
    held,   \* the identities the calling program holds a strong reference to
    tr,     \* the running Expression.transform call: frames, call log, result
    wk,     \* the live generators of walk()/find_all() and the last find()
    bd,     \* the last Func.from_arg_list call: class, input, built args
    nm,     \* the _sql_names class attributes and the last sql_names() call
    cmp     \* the last __eq__ / __hash__ comparison of two nodes

vars == <<heap, held, tr, wk, bd, nm, cmp>>

(***************************************************************************)
(* Values                                                                  *)
(***************************************************************************)
NoneV == [t |-> "none", x |-> 0, items |-> <<>>]
Sc(c) == [t |-> "scalar", x |-> c, items |-> <<>>]
Ref(i) == [t |-> "node", x |-> i, items |-> <<>>]
Lst(s) == [t |-> "list", x |-> 0, items |-> s]

IsNode(v) == v.t = "node"
IsList(v) == v.t = "list"

\* helper.ensure_list: a list is returned as it is, any other value is wrapped
\* as a one-element list.
ensure_list(v) == IF IsList(v) THEN v.items ELSE <<v>>

(***************************************************************************)
(* The taxonomy: the classes the model builds, their bases and arg_types   *)
(***************************************************************************)
\* The direct base class of each class of the module that the model uses.
Base(c) ==
    CASE c = "Null" -> "Expression"
      [] c = "Binary" -> "Expression"
      [] c = "Unary" -> "Expression"
      [] c = "Tuple" -> "Expression"
      [] c = "And" -> "Binary"
      [] c = "Not" -> "Unary"
      [] c = "Paren" -> "Unary"
      [] c = "Func" -> "Expression"
      [] c = "AggFunc" -> "Func"
      [] c = "Abs" -> "Func"
      [] c = "Anonymous" -> "Func"
      [] c = "ApproxDistinct" -> "AggFunc"
      [] c = "Array" -> "Func"
      [] c = "ArrayContains" -> "Func"
      [] c = "Ceil" -> "Func"
      [] c = "Coalesce" -> "Func"
      [] c = "Count" -> "AggFunc"
      [] c = "If" -> "Func"
      [] c = "Sum" -> "AggFunc"
      [] OTHER -> "object"

\* The method resolution order of a class: itself, then its bases.
RECURSIVE Mro(_)
Mro(c) == IF c = "object" THEN <<>> ELSE <<c>> \o Mro(Base(c))

\* isinstance(node, cls) for a node of class c.
IsInstance(c, cls) == \E i \in 1..Len(Mro(c)) : Mro(c)[i] = cls

\* The class's own arg_types declaration, keys in declaration order; a class
\* that declares none inherits it.
OwnArgTypes(c) ==
    CASE c = "Expression" -> <<"this">>
      [] c = "Null" -> <<>>
      [] c = "Binary" -> <<"this", "expression">>
      [] c = "Tuple" -> <<"expressions">>
      [] c = "Anonymous" -> <<"this", "expressions">>
      [] c = "ApproxDistinct" -> <<"this", "accuracy">>
      [] c = "Array" -> <<"expressions">>
      [] c = "ArrayContains" -> <<"this", "expression">>
      [] c = "Coalesce" -> <<"this", "expressions">>
      [] c = "Count" -> <<"this", "distinct">>
      [] c = "If" -> <<"this", "true", "false">>
      [] OTHER -> <<"inherit">>

RECURSIVE arg_types(_)
arg_types(c) ==
    IF OwnArgTypes(c) = <<"inherit">> THEN arg_types(Base(c)) ELSE OwnArgTypes(c)

\* Func.is_var_len_args, overridden by the variable-length variants.
is_var_len_args(c) == c \in {"Anonymous", "Array", "Coalesce"}

\* self.__class__.__name__.lower()
LowerName(c) ==
    CASE c = "Null" -> "null"
      [] c = "And" -> "and"
      [] c = "Not" -> "not"
      [] c = "Paren" -> "paren"
      [] c = "Tuple" -> "tuple"
      [] c = "Count" -> "count"
      [] c = "Abs" -> "abs"
      [] c = "Anonymous" -> "anonymous"
      [] c = "ApproxDistinct" -> "approxdistinct"
      [] c = "Array" -> "array"
      [] c = "ArrayContains" -> "arraycontains"
      [] c = "Ceil" -> "ceil"
      [] c = "Coalesce" -> "coalesce"
      [] c = "If" -> "if"
      [] c = "Sum" -> "sum"
      [] OTHER -> "expression"

(***************************************************************************)
(* Construction                                                            *)
(***************************************************************************)
\* Expression.__init__(**args): the keyword arguments are kept as given, in
\* the order given; the parent back-reference and arg_key start unset (0 is
\* the unset weak reference).
Expression_init(c, args) ==
    [type |-> c, key |-> LowerName(c), args |-> args, parent |-> 0,
     arg_key |-> "None"]

\* The heap with one more object; its identity is the new length.
New(h, c, args) == Append(h, Expression_init(c, args))

Arg(k, v) == [k |-> k, v |-> v]

\* The node references an args mapping holds, slot by slot, lists flattened.
RECURSIVE ChildIds(_)
ChildIds(args) ==
    IF args = <<>> THEN {}
    ELSE LET vs == ensure_list(Head(args).v)
         IN {vs[i].x : i \in {j \in 1..Len(vs) : IsNode(vs[j])}}
            \cup ChildIds(Tail(args))

\* The identities reachable from a set of nodes through args (the strong,
\* owning references), found by a bounded closure.
RECURSIVE ReachFrom(_, _, _)
ReachFrom(h, S, fuel) ==
    LET T == S \cup UNION {ChildIds(h[n].args) : n \in S}
    IN IF fuel = 0 \/ T = S THEN S ELSE ReachFrom(h, T, fuel - 1)

Subtree(h, n) == ReachFrom(h, {n}, Len(h))

(***************************************************************************)
(* Expression.__eq__ and Expression.__hash__                               *)
(***************************************************************************)
\* Python's == on two slot values: the same object is equal, two nodes are
\* compared by __eq__, two lists element by element, anything else by value.
RECURSIVE ValEq(_, _, _)
ValEq(h, a, b) ==
    CASE a.t = "node" /\ b.t = "node" ->
            \/ a.x = b.x
            \/ /\ h[a.x].type = h[b.x].type
               /\ Len(h[a.x].args) = Len(h[b.x].args)
               /\ \A i \in 1..Len(h[a.x].args) :
                    \E j \in 1..Len(h[b.x].args) :
                        /\ h[b.x].args[j].k = h[a.x].args[i].k
                        /\ ValEq(h, h[a.x].args[i].v, h[b.x].args[j].v)
      [] a.t = "list" /\ b.t = "list" ->
            /\ Len(a.items) = Len(b.items)
            /\ \A i \in 1..Len(a.items) : ValEq(h, a.items[i], b.items[i])
      [] OTHER -> a = b

\* type(self) is type(other) and self.args == other.args; the comparison of
\* two dicts ignores the order of their keys.
Expression_eq(h, a, b) ==
    /\ h[a].type = h[b].type
    /\ Len(h[a].args) = Len(h[b].args)
    /\ \A i \in 1..Len(h[a].args) :
         \E j \in 1..Len(h[b].args) :
            /\ h[b].args[j].k = h[a].args[i].k
            /\ ValEq(h, h[a].args[i].v, h[b].args[j].v)

\* A hash value is modelled by the structure Python hashes (a collision-free
\* hash): an int, a string, None, or a tuple of hashed items.
HInt(c) == [t |-> "int", s |-> "", x |-> c, items |-> <<>>]
HStr(s) == [t |-> "str", s |-> s, x |-> 0, items |-> <<>>]
HNone == [t |-> "none", s |-> "", x |-> 0, items |-> <<>>]
HTuple(items) == [t |-> "tuple", s |-> "", x |-> 0, items |-> items]

\* hash((self.key, tuple((k, tuple(v) if isinstance(v, list) else v)
\*                       for k, v in self.args.items()))):
\* the pairs are taken in the order the args dict holds them.
RECURSIVE ValHash(_, _)
ValHash(h, v) ==
    CASE v.t = "node" ->
            HTuple(<<HStr(h[v.x].key),
                     HTuple([i \in 1..Len(h[v.x].args) |->
                                HTuple(<<HStr(h[v.x].args[i].k),
                                         ValHash(h, h[v.x].args[i].v)>>)])>>)
      [] v.t = "list" -> HTuple([i \in 1..Len(v.items) |-> ValHash(h, v.items[i])])
      [] v.t = "scalar" -> HInt(v.x)
      [] OTHER -> HNone

Expression_hash(h, n) == ValHash(h, Ref(n))

(***************************************************************************)
(* Expression.parent and Expression.depth                                  *)
(***************************************************************************)
\* The objects that still exist: those reachable by strong references from
\* what the program holds.  Anything else has been destroyed.
Live(h, hd) == ReachFrom(h, hd, Len(h))

\* The parent property: None (0) when the weak reference is unset, and None
\* when its referent no longer exists (a dead weakref returns None).
parent(h, hd, n) ==
    IF h[n].parent = 0 THEN 0
    ELSE IF h[n].parent \in Live(h, hd) THEN h[n].parent ELSE 0

\* The depth property: parent.depth + 1, or 0 without a parent.  A cycle of
\* back-references recurses until Python's RecursionError, modelled as -1.
RECURSIVE depthFrom(_, _, _, _)
depthFrom(h, hd, n, fuel) ==
    IF parent(h, hd, n) = 0 THEN 0
    ELSE IF fuel = 0 THEN -1
    ELSE LET d == depthFrom(h, hd, parent(h, hd, n), fuel - 1)
         IN IF d = -1 THEN -1 ELSE d + 1

depth(h, hd, n) == depthFrom(h, hd, n, Len(h))

\* The parent setter: a weak reference to the new parent.
SetParent(h, n, p) == [h EXCEPT ![n].parent = p]

(***************************************************************************)
(* The idle values of the parts of the state a specification does not use  *)
(***************************************************************************)
TrIdle == [pc |-> "idle"]
WkIdle == [its |-> <<>>]
BdIdle == [op |-> "none"]
NmIdle == [op |-> "none"]
CmpIdle == [a |-> 0, b |-> 0, eq |-> FALSE, ha |-> HNone, hb |-> HNone,
            op |-> "none"]

(***************************************************************************)
(* SpecEq: programmatic construction, then == and hash of two trees        *)
(***************************************************************************)
MaxEqNodes == 3
EqScalars == {1, 2}
EqClasses == {"Null", "Not", "And", "Tuple"}

\* The nodes no other node holds: the roots the program has in hand.
Roots(h) == {n \in 1..Len(h) : \A m \in 1..Len(h) : n \notin ChildIds(h[m].args)}

\* The values a constructor call may be given for one slot of class c.
SlotValues(h, c) ==
    IF c = "Tuple"
    THEN {Lst(<<>>)} \cup {Lst(<<Sc(x)>>) : x \in EqScalars}
         \cup {Lst(<<Ref(n)>>) : n \in Roots(h)}
         \cup {Lst(<<Sc(x), Ref(n)>>) : x \in EqScalars, n \in Roots(h)}
    ELSE {Sc(x) : x \in EqScalars} \cup {Ref(n) : n \in Roots(h)}

\* The keyword-argument lists for class c: every declared key once, supplied
\* in any order, no node handed to two slots.
KwArgs(h, c) ==
    LET ks == arg_types(c)
        n == Len(ks)
        orders == {p \in [1..n -> 1..n] : \A i, j \in 1..n : p[i] = p[j] => i = j}
        vals == [1..n -> SlotValues(h, c)]
    IN {[i \in 1..n |-> Arg(ks[p[i]], vs[i])] : p \in orders, vs \in
            {w \in vals : \A i, j \in 1..n :
                (i # j /\ ChildIds(<<Arg("k", w[i])>>) # {}) =>
                    ChildIds(<<Arg("k", w[i])>>) # ChildIds(<<Arg("k", w[j])>>)}}

InitEq ==
    /\ heap = <<>>
    /\ held = {}
    /\ tr = TrIdle
    /\ wk = WkIdle
    /\ bd = BdIdle
    /\ nm = NmIdle
    /\ cmp = CmpIdle

\* cls(**args): a new node; the program keeps the new root and gives up the
\* roots it handed over as children.
Construct ==
    /\ Len(heap) < MaxEqNodes
    /\ \E c \in EqClasses : \E args \in KwArgs(heap, c) :
        /\ heap' = New(heap, c, args)
        /\ held' = (held \ ChildIds(args)) \cup {Len(heap) + 1}
    /\ UNCHANGED <<tr, wk, bd, nm, cmp>>

\* a == b on two trees built independently of each other.
CallEq ==
    /\ \E a, b \in Roots(heap) :
        /\ a # b
        /\ cmp' = [CmpIdle EXCEPT !.a = a, !.b = b, !.op = "eq",
                                  !.eq = Expression_eq(heap, a, b)]
    /\ UNCHANGED <<heap, held, tr, wk, bd, nm>>

\* hash(a) and hash(b) of the two trees last compared.
CallHash ==
    /\ cmp.op = "eq"
    /\ cmp' = [cmp EXCEPT !.op = "hash",
                          !.ha = Expression_hash(heap, cmp.a),
                          !.hb = Expression_hash(heap, cmp.b)]
    /\ UNCHANGED <<heap, held, tr, wk, bd, nm>>

NextEq == Construct \/ CallEq \/ CallHash

SpecEq == InitEq /\ [][NextEq]_vars

\* The two trees hold the same classes and, slot by slot under the same
\* key, the same values: what "identical variant types and recursively
\* identical args" says, whatever the order the keys were supplied in.
RECURSIVE SameShape(_, _, _)
SameShape(h, a, b) ==
    CASE a.t = "node" /\ b.t = "node" ->
            /\ h[a.x].type = h[b.x].type
            /\ {h[a.x].args[i].k : i \in 1..Len(h[a.x].args)}
                = {h[b.x].args[i].k : i \in 1..Len(h[b.x].args)}
            /\ \A i \in 1..Len(h[a.x].args) : \A j \in 1..Len(h[b.x].args) :
                    h[a.x].args[i].k = h[b.x].args[j].k =>
                        SameShape(h, h[a.x].args[i].v, h[b.x].args[j].v)
      [] a.t = "list" /\ b.t = "list" ->
            /\ Len(a.items) = Len(b.items)
            /\ \A i \in 1..Len(a.items) : SameShape(h, a.items[i], b.items[i])
      [] OTHER -> a = b

\* C4: for generic nodes, two independently built trees with identical
\* variant types and recursively identical args, in whatever order the named
\* arguments were supplied, compare equal and hash equal; so any two nodes
\* for which == holds have the same hash.
C4_EqualTreesHashEqual ==
    cmp.op = "hash" =>
        /\ SameShape(heap, Ref(cmp.a), Ref(cmp.b)) => (cmp.eq /\ cmp.ha = cmp.hb)
        /\ cmp.eq => cmp.ha = cmp.hb

\* Two trees that differ only in the order their keyword arguments were
\* supplied have been compared and hashed.
C4_Witness ==
    /\ cmp.op = "hash"
    /\ SameShape(heap, Ref(cmp.a), Ref(cmp.b))
    /\ heap[cmp.a].args # heap[cmp.b].args

(***************************************************************************)
(* SpecBind: Func.from_arg_list                                            *)
(***************************************************************************)
MaxArgs == 4
BindScalars == {1, 2}
BindClasses == {"Abs", "ArrayContains", "If", "Coalesce", "Array", "Anonymous"}

\* A bug the binder could have: the last key of a variable-length class is
\* bound positionally like the others.
all_keys_positional(cls) == arg_types(cls)

\* The keys bound positionally: all but the last for a variable-length class.
non_var_len_arg_keys(cls) ==
    IF is_var_len_args(cls)
    THEN SubSeq(arg_types(cls), 1, Len(arg_types(cls)) - 1)
    ELSE arg_types(cls)

\* One pass of "for arg_key in non_var_len_arg_keys": keys are the keys not
\* yet visited, arg_idx the 0-based index into args, args_dict the dict built.
\* The loop breaks when the input is exhausted; a None input is not bound,
\* and arg_idx advances either way.
RECURSIVE BindLoop(_, _, _, _)
BindLoop(keys, args, arg_idx, args_dict) ==
    IF keys = <<>> \/ arg_idx >= Len(args)
    THEN [arg_idx |-> arg_idx, args_dict |-> args_dict]
    ELSE BindLoop(Tail(keys), args, arg_idx + 1,
                  IF args[arg_idx + 1] # NoneV
                  THEN Append(args_dict, Arg(Head(keys), args[arg_idx + 1]))
                  ELSE args_dict)

\* The keyword arguments from_arg_list hands to cls(**args_dict): the fixed
\* keys bound by the loop, then, for a variable-length class with input left
\* over, the slice args[arg_idx:] under the last key.
from_arg_list(cls, args) ==
    LET all_arg_keys == arg_types(cls)
        r == BindLoop(non_var_len_arg_keys(cls), args, 0, <<>>)
    IN IF r.arg_idx < Len(args) /\ is_var_len_args(cls)
       THEN Append(r.args_dict,
                   Arg(all_arg_keys[Len(all_arg_keys)],
                       Lst(SubSeq(args, r.arg_idx + 1, Len(args)))))
       ELSE r.args_dict

\* The positional inputs: up to MaxArgs values, each None or a parsed value.
BindInputs ==
    UNION {[1..m -> {NoneV} \cup {Sc(x) : x \in BindScalars}] : m \in 0..MaxArgs}

InitBind ==
    /\ heap = <<>>
    /\ held = {}
    /\ tr = TrIdle
    /\ wk = WkIdle
    /\ nm = NmIdle
    /\ cmp = CmpIdle
    /\ \E cls \in BindClasses : \E args \in BindInputs :
        bd = [op |-> "input", cls |-> cls, args |-> args, node |-> 0]

\* cls.from_arg_list(args): the node cls(**args_dict) is built and returned.
FromArgList ==
    /\ bd.op = "input"
    /\ heap' = New(heap, bd.cls, from_arg_list(bd.cls, bd.args))
    /\ held' = {Len(heap) + 1}
    /\ bd' = [bd EXCEPT !.op = "done", !.node = Len(heap) + 1]
    /\ UNCHANGED <<tr, wk, nm, cmp>>

NextBind == FromArgList

SpecBind == InitBind /\ [][NextBind]_vars

\* The args of the node the last from_arg_list call built.
Bound == heap[bd.node].args

\* C5: a none/absent entry at any position of the input, the variable-length
\* tail included, is never recorded in the args of the node from_arg_list
\* builds: no bound key has the absent value, no bound sequence contains it.
C5_NoneNeverBound ==
    bd.op = "done" =>
        \A i \in 1..Len(Bound) :
            /\ Bound[i].v # NoneV
            /\ \A j \in 1..Len(Bound[i].v.items) : Bound[i].v.items[j] # NoneV

Min(a, b) == IF a < b THEN a ELSE b

\* The positions 1..m of the input whose value is not None, in order.
RECURSIVE Pairs(_, _, _, _)
Pairs(keys, args, i, m) ==
    IF i > m THEN <<>>
    ELSE (IF args[i] # NoneV THEN <<Arg(keys[i], args[i])>> ELSE <<>>)
         \o Pairs(keys, args, i + 1, m)

\* C6 as stated: the i-th value is bound to the i-th key, for a fixed-arity
\* variant the first min(m, n) keys are bound and the rest dropped, for a
\* variable-length variant the first n-1 keys are bound and the remaining
\* values collected under the last key, which stays unbound when none remain.
C6_PositionalBinding ==
    bd.op = "done" =>
        LET keys == arg_types(bd.cls)
            n == Len(keys)
            m == Len(bd.args)
            nf == IF is_var_len_args(bd.cls) THEN n - 1 ELSE n
            fixed == [i \in 1..Min(m, nf) |-> Arg(keys[i], bd.args[i])]
        IN Bound = IF is_var_len_args(bd.cls) /\ m > nf
                   THEN Append(fixed, Arg(keys[n], Lst(SubSeq(bd.args, nf + 1, m))))
                   ELSE fixed

\* C6 amended: as C6, but a fixed key whose positional value is None is left
\* unbound (the value is skipped, the position is still consumed).
C6_PositionalBindingSkippingNone ==
    bd.op = "done" =>
        LET keys == arg_types(bd.cls)
            n == Len(keys)
            m == Len(bd.args)
            nf == IF is_var_len_args(bd.cls) THEN n - 1 ELSE n
            fixed == Pairs(keys, bd.args, 1, Min(m, nf))
        IN Bound = IF is_var_len_args(bd.cls) /\ m > nf
                   THEN Append(fixed, Arg(keys[n], Lst(SubSeq(bd.args, nf + 1, m))))
                   ELSE fixed

\* A fixed-arity call with a None in the middle and a value beyond the arity,
\* and a variable-length call with a tail, have both been bound.
C6_Witness ==
    /\ bd.op = "done"
    /\ \/ /\ bd.cls = "If"
          /\ Len(bd.args) = 4
          /\ bd.args[2] = NoneV
          /\ bd.args[3] # NoneV
       \/ /\ bd.cls = "Coalesce"
          /\ Len(bd.args) = 3
          /\ bd.args[1] = NoneV
          /\ bd.args[2] # NoneV

(***************************************************************************)
(* SpecNames: Func.sql_names, sql_name, default_parser_mappings            *)
(***************************************************************************)
NameClasses == {"Func", "AggFunc", "Sum", "ApproxDistinct", "Count", "Abs", "Ceil"}

\* cls.__name__, letter by letter.
ClassName(c) ==
    CASE c = "Func" -> <<"F", "u", "n", "c">>
      [] c = "AggFunc" -> <<"A", "g", "g", "F", "u", "n", "c">>
      [] c = "Sum" -> <<"S", "u", "m">>
      [] c = "ApproxDistinct" ->
            <<"A", "p", "p", "r", "o", "x", "D", "i", "s", "t", "i", "n", "c", "t">>
      [] c = "Count" -> <<"C", "o", "u", "n", "t">>
      [] c = "Abs" -> <<"A", "b", "s">>
      [] OTHER -> <<"C", "e", "i", "l">>

LowerLetters ==
    <<"a", "b", "c", "d", "e", "f", "g", "h", "i", "j", "k", "l", "m",
      "n", "o", "p", "q", "r", "s", "t", "u", "v", "w", "x", "y", "z">>
UpperLetters ==
    <<"A", "B", "C", "D", "E", "F", "G", "H", "I", "J", "K", "L", "M",
      "N", "O", "P", "Q", "R", "S", "T", "U", "V", "W", "X", "Y", "Z">>

IsUpper(ch) == \E i \in 1..Len(UpperLetters) : UpperLetters[i] = ch
ToUpper(ch) ==
    IF \E i \in 1..Len(LowerLetters) : LowerLetters[i] = ch
    THEN UpperLetters[CHOOSE i \in 1..Len(LowerLetters) : LowerLetters[i] = ch]
    ELSE ch

\* helper.camel_to_snake_case: an underscore goes before every capital that
\* is not the first letter, and every letter is upper-cased.
RECURSIVE SnakeFrom(_, _)
SnakeFrom(name, i) ==
    IF i > Len(name) THEN <<>>
    ELSE (IF i > 1 /\ IsUpper(name[i]) THEN <<"_">> ELSE <<>>)
         \o <<ToUpper(name[i])>> \o SnakeFrom(name, i + 1)

camel_to_snake_case(name) == SnakeFrom(name, 1)

\* The _sql_names a class body declares (Ceil = ["CEIL", "CEILING"]); the
\* empty sequence stands for a class that declares none.
DeclaredSqlNames(c) ==
    IF c = "Ceil"
    THEN << <<"C", "E", "I", "L">>, <<"C", "E", "I", "L", "I", "N", "G">> >>
    ELSE <<>>

\* hasattr(cls, "_sql_names"): the attribute is looked up along the MRO.
HasSqlNames(attrs, c) ==
    \E i \in 1..Len(Mro(c)) : Mro(c)[i] \in DOMAIN attrs /\ attrs[Mro(c)[i]] # <<>>

\* cls._sql_names: the attribute of the first class of the MRO that has it.
GetSqlNames(attrs, c) ==
    LET i == CHOOSE i \in 1..Len(Mro(c)) :
                /\ Mro(c)[i] \in DOMAIN attrs /\ attrs[Mro(c)[i]] # <<>>
                /\ \A j \in 1..(i - 1) :
                     ~(Mro(c)[j] \in DOMAIN attrs /\ attrs[Mro(c)[j]] # <<>>)
    IN attrs[Mro(c)[i]]

\* The class attributes after cls.sql_names(): a class without the attribute
\* (its own or an inherited one) gets its upper-snake name cached on itself.
sql_names_attrs(attrs, c) ==
    IF HasSqlNames(attrs, c) THEN attrs
    ELSE [attrs EXCEPT ![c] = <<camel_to_snake_case(ClassName(c))>>]

\* What cls.sql_names() returns.
sql_names(attrs, c) == GetSqlNames(sql_names_attrs(attrs, c), c)

InitNames ==
    /\ heap = <<>>
    /\ held = {}
    /\ tr = TrIdle
    /\ wk = WkIdle
    /\ bd = BdIdle
    /\ cmp = CmpIdle
    /\ nm = [op |-> "none", cls |-> "Func", raised |-> FALSE, out |-> <<>>,
             attrs |-> [c \in NameClasses |-> DeclaredSqlNames(c)]]

\* cls.sql_names(); on Func itself it raises NotImplementedError.
SqlNames ==
    /\ \E c \in NameClasses :
        nm' = IF c = "Func"
              THEN [nm EXCEPT !.op = "sql_names", !.cls = c, !.raised = TRUE,
                              !.out = <<>>]
              ELSE [nm EXCEPT !.op = "sql_names", !.cls = c, !.raised = FALSE,
                              !.out = sql_names(nm.attrs, c),
                              !.attrs = sql_names_attrs(nm.attrs, c)]
    /\ UNCHANGED <<heap, held, tr, wk, bd, cmp>>

\* cls.sql_name(): the first of cls.sql_names().
SqlName ==
    /\ \E c \in NameClasses :
        nm' = IF c = "Func"
              THEN [nm EXCEPT !.op = "sql_name", !.cls = c, !.raised = TRUE,
                              !.out = <<>>]
              ELSE [nm EXCEPT !.op = "sql_name", !.cls = c, !.raised = FALSE,
                              !.out = <<sql_names(nm.attrs, c)[1]>>,
                              !.attrs = sql_names_attrs(nm.attrs, c)]
    /\ UNCHANGED <<heap, held, tr, wk, bd, cmp>>

\* cls.default_parser_mappings(): one entry per name of cls.sql_names(); out
\* keeps the keys of the mapping.
DefaultParserMappings ==
    /\ \E c \in NameClasses :
        nm' = IF c = "Func"
              THEN [nm EXCEPT !.op = "default_parser_mappings", !.cls = c,
                              !.raised = TRUE, !.out = <<>>]
              ELSE [nm EXCEPT !.op = "default_parser_mappings", !.cls = c,
                              !.raised = FALSE,
                              !.out = sql_names(nm.attrs, c),
                              !.attrs = sql_names_attrs(nm.attrs, c)]
    /\ UNCHANGED <<heap, held, tr, wk, bd, cmp>>

NextNames == SqlNames \/ SqlName \/ DefaultParserMappings

SpecNames == InitNames /\ [][NextNames]_vars

\* C7: after any sequence of sql_names / sql_name / default_parser_mappings
\* calls, sql_names() on a variant without an alias override returns exactly
\* the upper-snake form of its own type name, and on a variant with an
\* override exactly the declared alias list.
C7_SqlNamesOwnName ==
    (nm.op = "sql_names" /\ ~nm.raised) =>
        nm.out = IF DeclaredSqlNames(nm.cls) # <<>>
                 THEN DeclaredSqlNames(nm.cls)
                 ELSE <<camel_to_snake_case(ClassName(nm.cls))>>

(***************************************************************************)
(* SpecWalk: walk, bfs, dfs, find_all, find                                *)
(***************************************************************************)
MaxIters == 2

Triple(item, p, k) == [item |-> item, parent |-> p, key |-> k]

\* The triples of one args slot: (node, item, k) for node in ensure_list(v).
SlotTriples(n, a) ==
    [i \in 1..Len(ensure_list(a.v)) |-> Triple(ensure_list(a.v)[i], n, a.k)]

\* A bug a traversal could have: a list slot contributes its first value only.
RECURSIVE FirstOfEachSlot(_, _)
FirstOfEachSlot(n, args) ==
    IF args = <<>> THEN <<>>
    ELSE SubSeq(SlotTriples(n, Head(args)), 1, 1) \o FirstOfEachSlot(n, Tail(args))

\* for k, v in item.args.items(): for node in ensure_list(v): the triples of
\* the children of node n, in the order the args dict holds its keys.
RECURSIVE ChildTriples(_, _)
ChildTriples(n, args) ==
    IF args = <<>> THEN <<>>
    ELSE SlotTriples(n, Head(args)) \o ChildTriples(n, Tail(args))

\* A bug bfs could have: queue.pop(0), the head of the queue.
PopHead(queue) == 1

\* queue.pop(): the index of the element removed, the tail of the list.
PopIndex(queue) == Len(queue)

\* One turn of the loop of bfs: the triple popped and yielded, and the queue
\* with the children of a popped node appended.
bfs_step(h, queue) ==
    LET i == PopIndex(queue)
        t == queue[i]
        rest == SubSeq(queue, 1, i - 1) \o SubSeq(queue, i + 1, Len(queue))
    IN [yield |-> t,
        queue |-> IF IsNode(t.item)
                  THEN rest \o ChildTriples(t.item.x, h[t.item.x].args)
                  ELSE rest]

\* dfs(parent, key): the node itself, then slot by slot each value: the dfs
\* of a node, or the value itself paired with its owner and key.
RECURSIVE dfs(_, _), dfs_children(_, _)
dfs(h, t) == <<t>> \o dfs_children(h, ChildTriples(t.item.x, h[t.item.x].args))
dfs_children(h, cs) ==
    IF cs = <<>> THEN <<>>
    ELSE (IF IsNode(Head(cs).item) THEN dfs(h, Head(cs)) ELSE <<Head(cs)>>)
         \o dfs_children(h, Tail(cs))

\* isinstance(expression, expression_types)
Matches(h, v, types) ==
    IsNode(v) /\ \E c \in types : IsInstance(h[v.x].type, c)

\* One next() on find_all: walk() is advanced until it yields a match, or
\* until it is exhausted.
RECURSIVE find_all_next(_, _, _)
find_all_next(h, queue, types) ==
    IF queue = <<>> THEN [hit |-> <<>>, queue |-> <<>>]
    ELSE LET r == bfs_step(h, queue)
         IN IF Matches(h, r.yield.item, types)
            THEN [hit |-> <<r.yield.item>>, queue |-> r.queue]
            ELSE find_all_next(h, r.queue, types)

\* The trees the walks run on: built by the constructors, the last two with
\* the back-references set as a parser or a transform sets them.
WalkHeapA ==
    New(New(New(New(<<>>, "Null", <<>>),
                "Not", <<Arg("this", Ref(1))>>),
            "Null", <<>>),
        "And", <<Arg("this", Ref(2)), Arg("expression", Ref(3))>>)
WalkHeapB ==
    New(New(New(<<>>, "Null", <<>>),
            "Not", <<Arg("this", Sc(1))>>),
        "And", <<Arg("expression", Ref(1)), Arg("this", Ref(2))>>)
WalkHeapC ==
    New(New(New(New(<<>>, "Null", <<>>),
                "Null", <<>>),
            "Not", <<Arg("this", Ref(2))>>),
        "Tuple", <<Arg("expressions", Lst(<<Ref(1), Sc(1), Ref(3)>>))>>)
WalkHeapD ==
    SetParent(SetParent(SetParent(SetParent(
        New(New(New(New(New(<<>>, "Null", <<>>),
                        "Null", <<>>),
                    "Tuple", <<Arg("expressions", Lst(<<Ref(1), Ref(2)>>))>>),
                "And", <<Arg("this", Ref(3)), Arg("expression", NoneV)>>),
            "Paren", <<Arg("this", Ref(4))>>),
        1, 3), 2, 3), 3, 4), 4, 5)
WalkHeapE ==
    SetParent(SetParent(
        New(New(New(<<>>, "Not", <<Arg("this", Sc(2))>>),
                "Count", <<Arg("distinct", Sc(1)), Arg("this", Ref(1))>>),
            "Paren", <<Arg("this", Ref(2))>>),
        1, 2), 2, 3)

\* Each tree with the node the walks start from and what the program holds.
WalkStarts ==
    {[heap |-> WalkHeapA, root |-> 4, held |-> {4}],
     [heap |-> WalkHeapB, root |-> 3, held |-> {3}],
     [heap |-> WalkHeapC, root |-> 4, held |-> {4}],
     [heap |-> WalkHeapD, root |-> 5, held |-> {5}],
     [heap |-> WalkHeapD, root |-> 4, held |-> {5}],
     [heap |-> WalkHeapE, root |-> 2, held |-> {2}],
     [heap |-> WalkHeapE, root |-> 2, held |-> {3}]}

\* The type tuples find and find_all are called with.
WalkTypes == {{"Null"}, {"Unary", "Tuple"}, {"Func"}}

InitWalk ==
    /\ tr = TrIdle
    /\ bd = BdIdle
    /\ nm = NmIdle
    /\ cmp = CmpIdle
    /\ \E s \in WalkStarts :
        /\ heap = s.heap
        /\ held = s.held
        /\ wk = [root |-> s.root, its |-> <<>>]

\* The (self, self.parent, None) triple both orders start from.
RootTriple == Triple(Ref(wk.root), parent(heap, held, wk.root), "None")

Iter(kind, types, queue, out, done) ==
    [kind |-> kind, types |-> types, queue |-> queue, out |-> out, done |-> done]

\* walk(bfs): a fresh generator; bfs starts from a queue holding the root
\* triple, dfs from the recursion at the root.
Walk ==
    /\ Len(wk.its) < MaxIters
    /\ \E b \in BOOLEAN :
        wk' = [wk EXCEPT !.its = Append(@,
                IF b THEN Iter("bfs", {}, <<RootTriple>>, <<>>, FALSE)
                ELSE Iter("dfs", {}, dfs(heap, RootTriple), <<>>, FALSE))]
    /\ UNCHANGED <<heap, held, tr, bd, nm, cmp>>

\* find_all(*types): a fresh generator over a fresh walk().
FindAll ==
    /\ Len(wk.its) < MaxIters
    /\ \E types \in WalkTypes :
        wk' = [wk EXCEPT !.its = Append(@,
                Iter("find_all", types, <<RootTriple>>, <<>>, FALSE))]
    /\ UNCHANGED <<heap, held, tr, bd, nm, cmp>>

\* next() on one of the live generators: it yields its next element, or is
\* exhausted.  The other generators are not touched.
NextItem ==
    /\ \E i \in 1..Len(wk.its) :
        LET it == wk.its[i]
        IN /\ ~it.done
           /\ wk' = [wk EXCEPT !.its[i] =
                CASE it.queue = <<>> -> [it EXCEPT !.done = TRUE]
                  [] it.kind = "bfs" ->
                        [it EXCEPT !.queue = bfs_step(heap, it.queue).queue,
                                   !.out = Append(@, bfs_step(heap, it.queue).yield)]
                  [] it.kind = "dfs" ->
                        [it EXCEPT !.queue = Tail(@), !.out = Append(@, Head(it.queue))]
                  [] OTHER ->
                        LET r == find_all_next(heap, it.queue, it.types)
                        IN [it EXCEPT !.queue = r.queue, !.out = @ \o r.hit,
                                      !.done = r.hit = <<>>]]
    /\ UNCHANGED <<heap, held, tr, bd, nm, cmp>>

\* find(*types): next(self.find_all(*types), None); the generator is dropped
\* after its first element, out holding the node found (empty for None).
Find ==
    /\ Len(wk.its) < MaxIters
    /\ \E types \in WalkTypes :
        wk' = [wk EXCEPT !.its = Append(@,
                Iter("find", types, <<>>,
                     find_all_next(heap, <<RootTriple>>, types).hit, TRUE))]
    /\ UNCHANGED <<heap, held, tr, bd, nm, cmp>>

NextWalk == Walk \/ FindAll \/ NextItem \/ Find

SpecWalk == InitWalk /\ [][NextWalk]_vars

Range(q) == {q[i] : i \in 1..Len(q)}
Occurrences(q, x) == Cardinality({i \in 1..Len(q) : q[i] = x})
IsPrefix(p, q) == Len(p) <= Len(q) /\ SubSeq(q, 1, Len(p)) = p
NoRepeats(q) == \A i, j \in 1..Len(q) : q[i] = q[j] => i = j

\* The nodes of the subtree of the start node that match the types.
MatchingNodes(types) ==
    {Ref(n) : n \in {m \in Subtree(heap, wk.root) : Matches(heap, Ref(m), types)}}

\* The first element of a sequence that matches, as find reports it.
RECURSIVE FirstMatch(_, _)
FirstMatch(q, types) ==
    IF q = <<>> THEN <<>>
    ELSE IF Matches(heap, Head(q).item, types) THEN <<Head(q).item>>
    ELSE FirstMatch(Tail(q), types)

\* C9: find_all(types) yields exactly the nodes of the subtree whose variant
\* matches one of the types, each exactly once, whatever other walk() and
\* find_all() sequences on the same tree were started, partially consumed or
\* finished around it; find returns the first such node in default walk
\* order, or nothing when there is none.
C9_FindAllExactAndIndependent ==
    \A i \in 1..Len(wk.its) :
        LET it == wk.its[i]
        IN /\ it.kind = "find_all" =>
                /\ NoRepeats(it.out)
                /\ Range(it.out) \subseteq MatchingNodes(it.types)
                /\ it.done => Range(it.out) = MatchingNodes(it.types)
                /\ \A j \in 1..Len(wk.its) :
                     (wk.its[j].kind = "find_all" /\ wk.its[j].types = it.types) =>
                        \/ IsPrefix(it.out, wk.its[j].out)
                        \/ IsPrefix(wk.its[j].out, it.out)
           /\ it.kind = "find" =>
                /\ (it.out = <<>>) = (MatchingNodes(it.types) = {})
                /\ \A j \in 1..Len(wk.its) :
                     (wk.its[j].kind = "bfs" /\ wk.its[j].done) =>
                        it.out = FirstMatch(wk.its[j].out, it.types)
                /\ \A j \in 1..Len(wk.its) :
                     (wk.its[j].kind = "find_all" /\ wk.its[j].types = it.types
                      /\ wk.its[j].out # <<>>) =>
                        it.out = <<wk.its[j].out[1]>>

\* A find_all has run to its end and yielded two nodes or more while another
\* generator on the same tree was left partially consumed.
C9_Witness ==
    \E i, j \in 1..Len(wk.its) :
        /\ wk.its[i].kind = "find_all"
        /\ wk.its[i].done
        /\ Len(wk.its[i].out) >= 2
        /\ i # j
        /\ ~wk.its[j].done
        /\ wk.its[j].out # <<>>

\* The children of a node slot by slot in the order its class declares the
\* keys (arg_types), whatever the order the args dict holds them in.
RECURSIVE DeclaredChildTriples(_, _, _)
DeclaredChildTriples(n, keys, args) ==
    IF keys = <<>> THEN <<>>
    ELSE LET here == {i \in 1..Len(args) : args[i].k = Head(keys)}
         IN (IF here = {} THEN <<>>
             ELSE SlotTriples(n, args[CHOOSE i \in here : TRUE]))
            \o DeclaredChildTriples(n, Tail(keys), args)

Reverse(q) == [i \in 1..Len(q) |-> q[Len(q) + 1 - i]]

\* The order of a stack popped from its tail: a triple, then the whole
\* subtree of its last pushed child, then that of the child pushed before it,
\* and so on; declared says which order the children are pushed in.
RECURSIVE StackOrder(_, _, _), StackOrderAll(_, _, _)
StackOrder(h, t, declared) ==
    <<t>> \o
    (IF IsNode(t.item)
     THEN StackOrderAll(h, Reverse(
            IF declared
            THEN DeclaredChildTriples(t.item.x, arg_types(h[t.item.x].type),
                                      h[t.item.x].args)
            ELSE ChildTriples(t.item.x, h[t.item.x].args)), declared)
     ELSE <<>>)
StackOrderAll(h, cs, declared) ==
    IF cs = <<>> THEN <<>>
    ELSE StackOrder(h, Head(cs), declared) \o StackOrderAll(h, Tail(cs), declared)

\* Every triple but the first comes after the triple of its parent node.
PreOrder(q) ==
    \A i \in 2..Len(q) : \E j \in 1..(i - 1) : q[j].item = Ref(q[i].parent)

SameMultiset(p, q) ==
    /\ Len(p) = Len(q)
    /\ \A x \in Range(p) \cup Range(q) : Occurrences(p, x) = Occurrences(q, x)

\* C10 as stated: the default walk() order is the tail-popped stack order
\* with the children pushed in declared key order; it is a finite pre-order
\* and holds the same multiset of triples as the depth-first walk.
C10_StackOrderDeclaredKeys ==
    \A i \in 1..Len(wk.its) :
        (wk.its[i].kind = "bfs" /\ wk.its[i].done) =>
            /\ wk.its[i].out = StackOrder(heap, RootTriple, TRUE)
            /\ PreOrder(wk.its[i].out)
            /\ SameMultiset(wk.its[i].out, dfs(heap, RootTriple))

\* C10 amended: the same, with the children pushed in the order the node's
\* args mapping holds its keys (the order they were supplied in).
C10_StackOrderArgsOrder ==
    \A i \in 1..Len(wk.its) :
        /\ (wk.its[i].kind = "bfs" /\ wk.its[i].out # <<>>) =>
                /\ wk.its[i].out[1] = RootTriple
                /\ IsPrefix(wk.its[i].out, StackOrder(heap, RootTriple, FALSE))
        /\ (wk.its[i].kind = "bfs" /\ wk.its[i].done) =>
                /\ wk.its[i].out = StackOrder(heap, RootTriple, FALSE)
                /\ PreOrder(wk.its[i].out)
                /\ SameMultiset(wk.its[i].out, dfs(heap, RootTriple))

\* A default walk of a tree with a list slot and a nested node has finished,
\* and its order differs from the depth-first one.
C10_Witness ==
    \E i \in 1..Len(wk.its) :
        /\ wk.its[i].kind = "bfs"
        /\ wk.its[i].done
        /\ Len(wk.its[i].out) >= 5
        /\ wk.its[i].out # dfs(heap, RootTriple)

(***************************************************************************)
(* SpecTransform: Expression.transform                                     *)
(***************************************************************************)
MaxFresh == 2
MaxMutations == 1

\* The position of x in the ascending enumeration of the finite set S.
Rank(S, x) == Cardinality({y \in S : y <= x})

\* A value with every node reference renamed by the map ren.
Renamed(v, ren) ==
    CASE v.t = "node" -> Ref(ren[v.x])
      [] v.t = "list" ->
            Lst([i \in 1..Len(v.items) |->
                    IF IsNode(v.items[i]) THEN Ref(ren[v.items[i].x]) ELSE v.items[i]])
      [] OTHER -> v

\* A bug a copy could have: the objects are copied but their args still
\* point at the objects they were copied from.
ShallowCopy(h, n) ==
    LET S == Subtree(h, n)
    IN h \o [i \in 1..Cardinality(S) |-> h[CHOOSE m \in S : Rank(S, m) = i]]

\* deepcopy(self): every object reachable from self through args is copied
\* once (the memo keeps shared objects shared), args pointing at the copies.
\* A weakref.ref is copied as it is, so each copy's _parent still refers to
\* the parent of the object it was copied from.  The copy of the node with
\* rank i in the subtree gets identity Len(h) + i.
deepcopy(h, n) ==
    LET S == Subtree(h, n)
        ren == [m \in S |-> Len(h) + Rank(S, m)]
        src(i) == CHOOSE m \in S : Rank(S, m) = i
    IN h \o [i \in 1..Cardinality(S) |->
                [h[src(i)] EXCEPT !.args =
                    [j \in 1..Len(h[src(i)].args) |->
                        Arg(h[src(i)].args[j].k, Renamed(h[src(i)].args[j].v, ren))]]]

\* The identity of the copy of n in deepcopy(h, n).
CopyOf(h, n) == Len(h) + Rank(Subtree(h, n), n)

\* A bug transform could have: None is not checked for.
NeverNone(new_node) == FALSE

\* new_node is None: raise ValueError.
IsNoneResult(new_node) == new_node = NoneV

\* A bug transform could have: only a non-node result ends the recursion.
TerminalIfNotNode(new_node, node) == ~IsNode(new_node)

\* not isinstance(new_node, Expression) or new_node is not node: the result
\* is returned as it is, without a visit of its args.
IsTerminal(new_node, node) == ~IsNode(new_node) \/ new_node # Ref(node)

\* child_nodes = v if is_list_arg else [v]
child_nodes(v) == IF IsList(v) THEN v.items ELSE <<v>>

Frame(n) == [node |-> n, ai |-> 1, ci |-> 1, acc |-> <<>>]

Outcome(h, st, pc, cur, result, error) ==
    [heap |-> h, stack |-> st, pc |-> pc, cur |-> cur, result |-> result,
     error |-> error]

\* The body of transform from one call of fun to the next.  Resume runs the
\* loops of the frame on top of the stack: a node child is the next node fun
\* is called on, another child passes through, a finished slot is written
\* back in its own shape, a finished node is returned to its caller.
\* Return hands a result to the caller: the frame below sets the parent of
\* the result to its node (an AttributeError when the result is no node) and
\* appends it to new_child_nodes; with no caller transform returns it.
RECURSIVE Resume(_, _), Return(_, _, _)
Resume(h, st) ==
    LET f == st[Len(st)]
        args == h[f.node].args
    IN IF f.ai > Len(args)
       THEN Return(h, SubSeq(st, 1, Len(st) - 1), Ref(f.node))
       ELSE LET v == args[f.ai].v
                cns == child_nodes(v)
            IN IF f.ci > Len(cns)
               THEN Resume([h EXCEPT ![f.node].args[f.ai].v =
                                IF IsList(v) THEN Lst(f.acc) ELSE f.acc[1]],
                           [st EXCEPT ![Len(st)] =
                                [f EXCEPT !.ai = @ + 1, !.ci = 1, !.acc = <<>>]])
               ELSE IF IsNode(cns[f.ci])
               THEN Outcome(h, st, "call", cns[f.ci].x, NoneV, "")
               ELSE Resume(h, [st EXCEPT ![Len(st)] =
                                [f EXCEPT !.ci = @ + 1,
                                          !.acc = Append(@, cns[f.ci])]])
Return(h, st, rv) ==
    IF st = <<>> THEN Outcome(h, st, "done", 0, rv, "")
    ELSE LET f == st[Len(st)]
         IN IF ~IsNode(rv)
            THEN Outcome(h, <<>>, "error", 0, NoneV, "AttributeError")
            ELSE Resume(SetParent(h, rv.x, f.node),
                        [st EXCEPT ![Len(st)] =
                            [f EXCEPT !.ci = @ + 1, !.acc = Append(@, rv)]])

\* transform after new_node = fun(node), with h the heap fun left.
AfterFun(h, st, node, new_node) ==
    IF IsNoneResult(new_node)
    THEN Outcome(h, <<>>, "error", 0, NoneV, "ValueError")
    ELSE IF IsTerminal(new_node, node)
    THEN Return(h, st, new_node)
    ELSE Resume(h, Append(st, Frame(new_node.x)))

\* The nodes the pass has yet to visit: those held, directly or below, in the
\* slots and list positions after the current one of the frames on the stack.
RECURSIVE LaterRefs(_, _)
LaterRefs(h, st) ==
    IF st = <<>> THEN {}
    ELSE LET f == Head(st)
             args == h[f.node].args
             cns == child_nodes(args[f.ai].v)
         IN {cns[i].x : i \in {j \in (f.ci + 1)..Len(cns) : IsNode(cns[j])}}
            \cup ChildIds(SubSeq(args, f.ai + 1, Len(args)))
            \cup LaterRefs(h, Tail(st))

Pending(h, st) == ReachFrom(h, LaterRefs(h, st), Len(h))

\* The trees transform is called on, the node it is called on, and what the
\* program holds.
TransformStarts ==
    {[heap |-> WalkHeapA, root |-> 4, held |-> {4}],
     [heap |-> WalkHeapC, root |-> 4, held |-> {4}],
     [heap |-> WalkHeapE, root |-> 3, held |-> {3}],
     [heap |-> WalkHeapE, root |-> 2, held |-> {3}]}

InitTransform ==
    /\ wk = WkIdle
    /\ bd = BdIdle
    /\ nm = NmIdle
    /\ cmp = CmpIdle
    /\ \E s \in TransformStarts :
        /\ heap = s.heap
        /\ held = s.held
        /\ tr = [pc |-> "idle", copy |-> FALSE, self |-> s.root, node |-> s.root,
                 stack |-> <<>>, cur |-> 0, calls |-> <<>>, same |-> {},
                 repl |-> <<>>, fnNone |-> FALSE, ident |-> TRUE,
                 result |-> NoneV, error |-> "", snap |-> s.heap, fresh |-> 0,
                 muts |-> 0]

\* self.transform(fun, copy): node = deepcopy(self) if copy else self; fun is
\* about to be called on node.
TransformStart ==
    /\ tr.pc = "idle"
    /\ \E copy \in BOOLEAN :
        /\ heap' = IF copy THEN deepcopy(heap, tr.self) ELSE heap
        /\ tr' = [tr EXCEPT !.pc = "call", !.copy = copy,
                            !.node = IF copy THEN CopyOf(heap, tr.self) ELSE tr.self,
                            !.cur = IF copy THEN CopyOf(heap, tr.self) ELSE tr.self]
    /\ UNCHANGED <<held, wk, bd, nm, cmp>>

\* The state after fun(tr.cur) returned new_node, having left the heap h.
Called(h, new_node, nfresh) ==
    LET o == AfterFun(h, tr.stack, tr.cur, new_node)
        via == IF tr.stack = <<>> THEN 0 ELSE tr.stack[Len(tr.stack)].node
        ysub == IF IsNode(new_node) THEN Subtree(h, new_node.x) ELSE {}
    IN /\ heap' = o.heap
       /\ held' = IF o.pc = "done" /\ IsNode(o.result)
                  THEN held \cup {o.result.x} ELSE held
       /\ tr' = [tr EXCEPT
                    !.pc = o.pc, !.stack = o.stack, !.cur = o.cur,
                    !.result = o.result, !.error = o.error,
                    !.calls = Append(@, [n |-> tr.cur, via |-> via]),
                    !.same = IF new_node = Ref(tr.cur) THEN @ \cup {tr.cur} ELSE @,
                    !.repl = IF IsNode(new_node) /\ new_node # Ref(tr.cur)
                             THEN Append(@, [x |-> tr.cur, y |-> new_node.x,
                                             ysub |-> ysub,
                                             at |-> Len(tr.calls) + 1,
                                             pend |-> ysub \cap Pending(h, tr.stack)])
                             ELSE @,
                    !.fnNone = @ \/ new_node = NoneV,
                    !.ident = @ /\ new_node = Ref(tr.cur) /\ h = heap,
                    !.fresh = @ + nfresh]
       /\ UNCHANGED <<wk, bd, nm, cmp>>

\* fun returns the node it was given.
FunSame ==
    /\ tr.pc = "call"
    /\ Called(heap, Ref(tr.cur), 0)

\* fun returns None.
FunNone ==
    /\ tr.pc = "call"
    /\ Called(heap, NoneV, 0)

\* fun returns a value that is no Expression.
FunScalar ==
    /\ tr.pc = "call"
    /\ Called(heap, Sc(7), 0)

\* fun returns a node it has just built around the node it was given:
\* Paren(this=node).
FunWrap ==
    /\ tr.pc = "call"
    /\ tr.fresh < MaxFresh
    /\ Called(New(heap, "Paren", <<Arg("this", Ref(tr.cur))>>),
              Ref(Len(heap) + 1), 1)

\* fun returns a subtree it has just built: Not(this=Null()).
FunNewSubtree ==
    /\ tr.pc = "call"
    /\ tr.fresh < MaxFresh
    /\ Called(New(New(heap, "Null", <<>>), "Not", <<Arg("this", Ref(Len(heap) + 1))>>),
              Ref(Len(heap) + 2), 1)

\* fun changes the node it was given in place, node.args[k] = Null(), and
\* returns it.
FunMutateSame ==
    /\ tr.pc = "call"
    /\ tr.fresh < MaxFresh
    /\ \E i \in 1..Len(heap[tr.cur].args) :
        Called([New(heap, "Null", <<>>) EXCEPT ![tr.cur].args[i].v = Ref(Len(heap) + 1)],
               Ref(tr.cur), 1)

\* fun returns another node that exists already: a node of the tree, of the
\* tree it was copied from, or one it returned before.
FunExisting ==
    /\ tr.pc = "call"
    /\ \E m \in 1..Len(heap) :
        /\ m # tr.cur
        /\ Called(heap, Ref(m), 0)

\* The nodes of the tree transform returned.
ResultNodes == IF IsNode(tr.result) THEN Subtree(heap, tr.result.x) ELSE {}

\* After transform returned: the program replaces one args slot of a node of
\* the result, node.args[k] = value.
Mutate ==
    /\ tr.pc = "done"
    /\ tr.muts < MaxMutations
    /\ \E n \in ResultNodes : \E i \in 1..Len(heap[n].args) :
        /\ heap[n].args[i].v # Sc(9)
        /\ heap' = [heap EXCEPT ![n].args[i].v = Sc(9)]
    /\ tr' = [tr EXCEPT !.muts = @ + 1]
    /\ UNCHANGED <<held, wk, bd, nm, cmp>>

\* After transform returned: the program drops one of the references it
\* holds; the objects nothing else holds are destroyed.
Release ==
    /\ tr.pc = "done"
    /\ \E r \in held : held' = held \ {r}
    /\ UNCHANGED <<heap, tr, wk, bd, nm, cmp>>

NextTransform ==
    \/ TransformStart
    \/ FunSame
    \/ FunNone
    \/ FunScalar
    \/ FunWrap
    \/ FunNewSubtree
    \/ FunMutateSame
    \/ FunExisting
    \/ Mutate
    \/ Release

SpecTransform == InitTransform /\ [][NextTransform]_vars

\* fun was called at most once on each node.
CalledOnce == \A i, j \in 1..Len(tr.calls) : tr.calls[i].n = tr.calls[j].n => i = j

\* Every node fun was called on but the first was reached from a node for
\* which fun had returned the instance it was given.
ReachedThroughSame == \A j \in 2..Len(tr.calls) : tr.calls[j].via \in tr.same

\* C1 as stated: if fun, applied to a node X, returns a Node instance Y
\* different from X, fun is not called on Y nor on any node inside Y's
\* subtree in the rest of the pass; fun is called once on each node reached,
\* and only nodes below nodes that fun returned unchanged are reached.
C1_ReplacementNeverVisited ==
    /\ \A i \in 1..Len(tr.repl) : \A j \in (tr.repl[i].at + 1)..Len(tr.calls) :
            tr.calls[j].n \notin tr.repl[i].ysub
    /\ CalledOnce
    /\ ReachedThroughSame

\* C1 amended: transform does not recurse into Y, so fun is not called on Y
\* nor on a node inside Y's subtree in the rest of the pass unless that node
\* is also held in an argument slot the pass has still to visit (fun returned
\* a later sibling, say, instead of a subtree it has just built); fun is
\* called once on each node reached, and only nodes below nodes that fun
\* returned unchanged are reached.
C1_ReplacementVisitedOnlyWherePending ==
    /\ \A i \in 1..Len(tr.repl) : \A j \in (tr.repl[i].at + 1)..Len(tr.calls) :
            tr.calls[j].n \in tr.repl[i].ysub => tr.calls[j].n \in tr.repl[i].pend
    /\ CalledOnce
    /\ ReachedThroughSame

\* A pass has ended in which fun replaced a node by a subtree of two nodes or
\* more, none of them in a slot still to visit, and was called on other
\* nodes afterwards.
C1_Witness ==
    /\ tr.pc = "done"
    /\ \E i \in 1..Len(tr.repl) :
        /\ tr.repl[i].pend = {}
        /\ Cardinality(tr.repl[i].ysub) >= 2
        /\ tr.repl[i].at < Len(tr.calls)

\* C2: transform(identity, copy=true) returns a tree equal to T whose root
\* and descendants are all instances distinct from T's; T's args are
\* unchanged by the call, and a later mutation of an args slot of the result
\* leaves T unchanged.
C2_IdentityCopyIsEqualAndDisjoint ==
    (tr.pc = "done" /\ tr.copy /\ tr.ident) =>
        /\ IsNode(tr.result)
        /\ ResultNodes \cap Subtree(tr.snap, tr.self) = {}
        /\ \A n \in Subtree(tr.snap, tr.self) : heap[n].args = tr.snap[n].args
        /\ tr.muts = 0 =>
                /\ Expression_eq(heap, tr.result.x, tr.self)
                /\ Cardinality(ResultNodes) = Cardinality(Subtree(tr.snap, tr.self))

\* An identity transform of a copy has returned and a slot of the result has
\* been replaced since.
C2_Witness ==
    /\ tr.pc = "done"
    /\ tr.copy
    /\ tr.ident
    /\ Len(tr.calls) >= 3
    /\ tr.muts = 1

\* C3: if fun returns None for any node, the root or a descendant, with copy
\* true or false, transform fails with an error and returns no tree.
C3_NoneIsFatal ==
    /\ tr.fnNone => (tr.pc = "error" /\ tr.error = "ValueError" /\ tr.result = NoneV)
    /\ tr.pc = "done" => ~tr.fnNone

\* fun has returned None for a descendant in an in-place transform.
C3_Witness ==
    /\ tr.fnNone
    /\ Len(tr.calls) >= 3
    /\ ~tr.copy

\* The live nodes no live node holds in its args.
TreeRoots ==
    {r \in Live(heap, held) :
        \A p \in Live(heap, held) : r \notin ChildIds(heap[p].args)}

\* C8: in a tree built by the constructors or returned by transform, every
\* child has the depth of the node holding it plus one, and the root has
\* depth 0.
C8_ChildDepthIsParentDepthPlusOne ==
    (tr.pc \in {"idle", "done"} /\ tr.muts = 0) =>
        /\ \A p \in Live(heap, held) : \A c \in ChildIds(heap[p].args) :
                depth(heap, held, c) = depth(heap, held, p) + 1
        /\ \A r \in TreeRoots : depth(heap, held, r) = 0

====
